---------------------------- MODULE Spec2Model ----------------------------
(***************************************************************************)
(* bevy_dae: the COLLADA asset loader of src/src/main.rs.                  *)
(*                                                                         *)
(* The model follows one call of collada_to_triangle_mesh or of            *)
(* collada_to_wireframe_mesh on a parsed document: the look-up of the      *)
(* geometry, sources, triangles primitive and input offsets, then the scan *)
(* loops one iteration per step, then the assembly of the mesh.            *)
(*                                                                         *)
(* Numbers.  A float is a pair <<g, t>> that stands for the value          *)
(*     g * 10^6  +  t * 10^-4          (|t| <= 10^4)                       *)
(* so that value * 1000 = g * 10^9 + t / Ticks: the products of the code   *)
(* leave the 32-bit range for |g| >= 3 while every number the model        *)
(* computes stays inside it.  For g = 0 and the t of the documents (every  *)
(* |t| <= 300, and 10^4) the f32 arithmetic of the code,                   *)
(* ((x as f32) * 1000.0).round(), gives exactly the rounding (half away    *)
(* from zero) of t / Ticks; for g # 0 the cast to f32 drops t (half an ulp *)
(* of f32 at 10^6 is 0.03125).                                             *)
(*                                                                         *)
(* An index out of range, a slice out of range and a division by zero are  *)
(* panics in Rust: the call ends with the result Panic(message).           *)
(***************************************************************************)
EXTENDS Integers, Sequences, FiniteSets, TLC

VARIABLES
    doc,              \* the parsed ColladaDocument (the input of the call)
    call,             \* "triangle" | "wireframe": the function called
    pc,               \* the position in the function
    i,                \* the loop variable (i of l.152, i of l.259, face of l.299)
    position_offset,  \* Option<usize>: <<>> or <<offset>>
    normal_offset,    \* Option<usize>: <<>> or <<offset>>
    stride,           \* the stride of the index block
    positions,        \* Vec<[f32; 3]>
    normals,          \* Vec<[f32; 3]>
    indices,          \* Vec<u32> (l.111)
    vertex_map,       \* HashMap<(i32, i32, i32), usize> (l.150)
    vertex_indices,   \* HashMap<(i32, i32, i32), usize> (l.257)
    line_indices,     \* Vec<u32> (l.297)
    result            \* the value returned, once pc = "done"

vars == <<doc, call, pc, i, position_offset, normal_offset, stride, positions,
          normals, indices, vertex_map, vertex_indices, line_indices, result>>

(***************************************************************************)
(* Bounds of the model.                                                    *)
(***************************************************************************)
MaxPos == 2        \* positions in the position source of the welding documents
MaxWin == 3        \* windows in the index block of the welding documents
MaxNormalP == 4    \* entries in the index block of the normal documents
MaxInputs == 3     \* inputs of the triangles primitive of the input documents
MaxFloats == 7     \* floats in the position source of the layout documents
MaxStride == 4     \* accessor stride of the position source of the layout documents

(***************************************************************************)
(* Floats.                                                                 *)
(***************************************************************************)
KeyScale == 1000                 \* the factor 1000.0 of the vertex key
I32Max == 2147483647
Ticks == 2 * 5                   \* model ticks (10^-4) per key unit (10^-3)
One == Ticks * KeyScale          \* 1.0 in ticks
Giga == KeyScale * KeyScale * KeyScale
I32Min == (0 - I32Max) - 1

Fl(t) == <<0, t>>                \* the float t * 10^-4

Abs(n) == IF n < 0 THEN 0 - n ELSE n

\* `x as f32` of a float64 x
CastF32(x) == IF x[1] # 0 THEN <<x[1], 0>> ELSE x

\* the cast without the round: t / Ticks truncated toward zero
RoundTowardZero(t) == IF t < 0 THEN 0 - (Abs(t) \div Ticks) ELSE t \div Ticks

\* f32::round of t / Ticks: to the nearest integer, half away from zero
RoundHalfAway(t) ==
    IF t < 0 THEN 0 - ((Abs(t) + Ticks \div 2) \div Ticks)
             ELSE (t + Ticks \div 2) \div Ticks

\* `v as i32` of the rounded product g * 10^9 + r: the cast saturates
SaturatingI32(g, r) ==
    IF g > 2 THEN I32Max
    ELSE IF g < 0 - 2 THEN I32Min
    ELSE g * Giga + r

\* ((c * 1000.0).round() as i32) of the f32 c
KeyAxis(c) == SaturatingI32(c[1], RoundHalfAway(c[2]))

\* the 3 floats read at raw[idx], raw[idx + 1], raw[idx + 2] (0-based idx)
Read3(raw, idx) ==
    <<CastF32(raw[idx + 1]), CastF32(raw[idx + 2]), CastF32(raw[idx + 3])>>

InRange3(raw, idx) == idx + 2 < Len(raw)

VertexKey(position) ==
    <<KeyAxis(position[1]), KeyAxis(position[2]), KeyAxis(position[3])>>

(***************************************************************************)
(* The document.  A document is                                            *)
(*   [scene |-> Option<Seq(node)>, mesh |-> [sources, triangles]]          *)
(* where a node is its instance_geometry, <<>> or <<url>>, only the url    *)
(* MeshUrl resolves (get_geometry), a source is [id, stride, float_array]  *)
(* with the id a sequence of characters, and a triangles primitive is      *)
(* [inputs, p] with an input [semantic, offset].                           *)
(***************************************************************************)
MeshUrl == "#mesh"

\* str::contains: needle occurs in hay as a contiguous sub-sequence
Contains(hay, needle) ==
    \E k \in 0..(Len(hay) - Len(needle)) :
        SubSeq(hay, k + 1, k + Len(needle)) = needle

LowerPosition == <<"p", "o", "s", "i", "t", "i", "o", "n">>
CapitalPosition == <<"P", "o", "s", "i", "t", "i", "o", "n">>
LowerNormal == <<"n", "o", "r", "m", "a", "l">>
CapitalNormal == <<"N", "o", "r", "m", "a", "l">>

\* Iterator::find: <<>> or <<the first element of seq whose index is in hits>>
First(seq, hits) ==
    IF hits = {} THEN <<>>
    ELSE <<seq[CHOOSE n \in hits : \A m \in hits : n <= m]>>

\* what a loop that overwrites on every match keeps: the last such element
Last(seq, hits) ==
    IF hits = {} THEN <<>>
    ELSE <<seq[CHOOSE n \in hits : \A m \in hits : m <= n]>>

\* l.65-67: get_visual_scene
GetVisualScene(d) == d.scene

\* l.73: get_geometry(&instance_geometry.url)
GetGeometry(d, url) == IF url = MeshUrl THEN <<d.mesh>> ELSE <<>>

\* l.70-82: the geometry of the first node whose instance_geometry resolves
FindGeometry(d, nodes) ==
    LET hits == {n \in 1..Len(nodes) :
                    Len(nodes[n]) > 0 /\ Len(GetGeometry(d, nodes[n][1])) > 0}
    IN  IF hits = {} THEN <<>> ELSE GetGeometry(d, First(nodes, hits)[1][1])

\* l.89 and l.246
IsPositionId(id) == Contains(id, LowerPosition) \/ Contains(id, CapitalPosition)

\* l.87-90 and l.244-247
FindPositionSource(mesh) ==
    First(mesh.sources,
          {n \in 1..Len(mesh.sources) : IsPositionId(mesh.sources[n].id)})

\* l.98
IsNormalId(id) == Contains(id, LowerNormal) \/ Contains(id, CapitalNormal)

\* l.96-98
FindNormalSource(mesh) ==
    First(mesh.sources,
          {n \in 1..Len(mesh.sources) : IsNormalId(mesh.sources[n].id)})

\* l.101-103 and l.280-282: mesh.triangles.get(0)
FirstTriangles(mesh) ==
    IF Len(mesh.triangles) = 0 THEN <<>> ELSE <<mesh.triangles[1]>>

WithSemantic(inputs, semantics) ==
    {n \in 1..Len(inputs) : inputs[n].semantic \in semantics}

OffsetOf(found) == IF Len(found) = 0 THEN <<>> ELSE <<found[1].offset>>

\* l.114-136: the position offset of collada_to_triangle_mesh
TrianglePositionOffset(inputs) ==
    IF Len(First(inputs, WithSemantic(inputs, {"VERTEX"}))) > 0
    THEN OffsetOf(Last(inputs, WithSemantic(inputs, {"VERTEX"})))
    ELSE OffsetOf(Last(inputs, WithSemantic(inputs, {"POSITION"})))

\* l.115-136: the normal offset (the same in both branches)
TriangleNormalOffset(inputs) ==
    OffsetOf(Last(inputs, WithSemantic(inputs, {"NORMAL"})))

\* l.284-288: the position offset of collada_to_wireframe_mesh
WireframePositionOffset(inputs) ==
    OffsetOf(First(inputs, WithSemantic(inputs, {"VERTEX", "POSITION"})))

\* l.142-147 and l.290-295
IndexStride(inputs) ==
    IF Len(inputs) = 0 THEN 1
    ELSE (CHOOSE m \in {inputs[n].offset : n \in 1..Len(inputs)} :
            \A n \in 1..Len(inputs) : inputs[n].offset <= m) + 1

(***************************************************************************)
(* The results of a call.                                                  *)
(***************************************************************************)
NoMesh == [topology |-> "", positions |-> <<>>, normals |-> <<>>,
           uv0 |-> <<>>, indices |-> <<>>]
Pending == [kind |-> "Pending", msg |-> "", mesh |-> NoMesh]
Panic(msg) == [kind |-> "Panic", msg |-> msg, mesh |-> NoMesh]
IndexOutOfBounds == "index out of bounds"
SliceOutOfRange == "range end index out of range for slice"
DivideByZero == "attempt to divide by zero"
GeometryError(msg) == [kind |-> "Err", msg |-> msg, mesh |-> NoMesh]
OkMesh(mesh) == [kind |-> "Ok", msg |-> "", mesh |-> mesh]

Repeat(value, n) == [k \in 1..n |-> value]

DefaultNormalZUp == <<Fl(0), Fl(0), Fl(One)>>     \* a z-up default
DefaultNormal == <<Fl(0), Fl(One), Fl(0)>>        \* l.176, l.179
WireframeNormal == <<Fl(One), Fl(0), Fl(0)>>      \* l.365
DefaultUv == <<Fl(0), Fl(0)>>                     \* l.203, l.366

\* the parts of a document that the look-up has found
MeshOf(d) == FindGeometry(d, GetVisualScene(d)[1])[1]
PositionSourceOf(d) == FindPositionSource(MeshOf(d))[1]
NormalSourceOf(d) == FindNormalSource(MeshOf(d))
TrianglesOf(d) == FirstTriangles(MeshOf(d))[1]

\* l.65-103: the error of the look-up, <<>> when there is none
LookupError(d, needsTriangles) ==
    IF Len(GetVisualScene(d)) = 0 THEN <<"No visual scene found">>
    ELSE IF Len(FindGeometry(d, GetVisualScene(d)[1])) = 0
         THEN <<"No geometry found">>
    ELSE IF Len(FindPositionSource(MeshOf(d))) = 0
         THEN <<"No position source found">>
    ELSE IF needsTriangles /\ Len(FirstTriangles(MeshOf(d))) = 0
         THEN <<"No triangles found">>
    ELSE <<>>

\* l.63-140: the error collada_to_triangle_mesh returns before its scan
TriangleError(d) ==
    IF Len(LookupError(d, TRUE)) > 0 THEN LookupError(d, TRUE)
    ELSE IF Len(TrianglePositionOffset(TrianglesOf(d).inputs)) = 0
         THEN <<"No position input found">>
    ELSE <<>>

\* l.222-247: the error collada_to_wireframe_mesh returns before its pool scan
WireframeError(d) == LookupError(d, FALSE)

\* l.280-288: the error collada_to_wireframe_mesh returns after its pool scan
WireframeTrianglesError(d) ==
    IF Len(FirstTriangles(MeshOf(d))) = 0 THEN <<"No triangles found">>
    ELSE IF Len(WireframePositionOffset(TrianglesOf(d).inputs)) = 0
         THEN <<"No position input found">>
    ELSE <<>>

(***************************************************************************)
(* One window of the index block.                                          *)
(***************************************************************************)
\* l.153 and l.300: &p[at..at + len] is in range
SliceInRange(p, at, len) == at + len <= Len(p)

\* l.156, l.304, l.318, l.332: p_indices[offset] * source stride
RawIndex(p, at, offset, source_stride) == p[at + offset + 1] * source_stride

\* l.156-161: the raw position of the window at `at`, <<>> when out of range
WindowPosition(source, p, at, offset) ==
    LET pos_idx == RawIndex(p, at, offset, source.stride)
    IN  IF InRange3(source.float_array, pos_idx)
        THEN <<Read3(source.float_array, pos_idx)>>
        ELSE <<>>

\* l.164-180: the normal of the window at `at`, <<>> when out of range
WindowNormal(normal_source, p, at, offset) ==
    IF Len(offset) > 0 /\ Len(normal_source) > 0
    THEN LET norm_idx == RawIndex(p, at, offset[1], normal_source[1].stride)
         IN  IF InRange3(normal_source[1].float_array, norm_idx)
             THEN <<Read3(normal_source[1].float_array, norm_idx)>>
             ELSE <<>>
    ELSE <<DefaultNormal>>

\* the index taken after the push: one past the vertex just stored
IndexAfterPush(map, key, next) == IF key \in DOMAIN map THEN map[key] ELSE next + 1

\* l.189-197: the index of a key, the next index when the key is new
IndexOfKey(map, key, next) == IF key \in DOMAIN map THEN map[key] ELSE next

\* l.192-195 and l.273-276: the map and a vector after the look-up of a key
Inserted(map, key, next) ==
    IF key \in DOMAIN map THEN map ELSE (key :> next) @@ map
\* a push on every window, known key or not
PushedAlways(vec, map, key, value) == Append(vec, value)

\* a known key has its stored value overwritten by the later window
PushedOverwriting(vec, map, key, value) ==
    IF key \in DOMAIN map THEN [vec EXCEPT ![map[key] + 1] = value]
    ELSE Append(vec, value)

Pushed(vec, map, key, value) ==
    IF key \in DOMAIN map THEN vec ELSE Append(vec, value)

(***************************************************************************)
(* The documents of the model.                                             *)
(***************************************************************************)
Input(semantic, offset) == [semantic |-> semantic, offset |-> offset]
Source(id, source_stride, floats) ==
    [id |-> id, stride |-> source_stride, float_array |-> floats]
TrianglesPrimitive(inputs, p) == [inputs |-> inputs, p |-> p]
Document(scene, sources, triangles) ==
    [scene |-> scene, mesh |-> [sources |-> sources, triangles |-> triangles]]

\* the float array of a sequence of 3-vectors with accessor stride 3
Flatten(vectors) ==
    [k \in 1..(3 * Len(vectors)) |-> vectors[((k - 1) \div 3) + 1][((k - 1) % 3) + 1]]

SeqsUpTo(S, n) == UNION {[1..m -> S] : m \in 0..n}

IdPrefix == <<"g", "-">>
UpperPosition == <<"P", "O", "S", "I", "T", "I", "O", "N">>
UpperNormal == <<"N", "O", "R", "M", "A", "L">>
IdPositionLower == IdPrefix \o LowerPosition \o <<"s">>
IdPositionCapital == IdPrefix \o CapitalPosition
IdPositionUpper == IdPrefix \o UpperPosition
IdNormalLower == IdPrefix \o LowerNormal \o <<"s">>
IdNormalCapital == IdPrefix \o CapitalNormal
IdNormalUpper == IdPrefix \o UpperNormal
IdMap == IdPrefix \o <<"m", "a", "p">>

\* positions: PB and PC differ by 0.0002 and lie on the two sides of 0.0005;
\* PC and PH lie within 0.0004 of 0.001; PE and PF are 10^6 apart and beyond
\* the range of i32 after scaling; PD (in the fixed sources) has a negative
\* coordinate on a rounding boundary
PB == <<Fl(4), Fl(0), Fl(0)>>
PC == <<Fl(6), Fl(0), Fl(0)>>
PH == <<Fl(14), Fl(0), Fl(0)>>
PD == <<Fl(4), Fl(0 - 5), Fl(One)>>
PE == <<<<3, 0>>, Fl(0), Fl(0)>>
PF == <<<<4, 0>>, Fl(0), Fl(0)>>
Points == <<PB, PC, PH, PE, PF>>

NX == <<Fl(One), Fl(0), Fl(0)>>
NZ == <<Fl(0), Fl(0), Fl(One)>>

Scene == <<<< <<MeshUrl>> >>>>
GoneUrl == "#gone"

\* welding: every multiset of up to MaxPos points (in the order of Points),
\* every index block of up to MaxWin windows of stride 1 over them, with one
\* index past the end
PointChoices ==
    {c \in SeqsUpTo(1..Len(Points), MaxPos) :
        Len(c) > 0 /\ \A k \in 1..(Len(c) - 1) : c[k] <= c[k + 1]}
WeldDoc(c, p) ==
    Document(Scene,
             <<Source(IdPositionLower, 3, Flatten([k \in 1..Len(c) |-> Points[c[k]]]))>>,
             <<TrianglesPrimitive(<<Input("VERTEX", 0)>>, p)>>)

\* normals: three positions of which two weld, two normals, index blocks of
\* stride 2 (also cut short) over them, with one normal index past the end
NormalSources ==
    {<<Source(IdPositionCapital, 3, Flatten(<<PB, PC, PH>>))>>,
     <<Source(IdPositionCapital, 3, Flatten(<<PB, PC, PH>>)),
       Source(IdNormalCapital, 3, Flatten(<<NX, NZ>>))>>,
     <<Source(IdNormalLower, 3, Flatten(<<NX, NZ>>)),
       Source(IdPositionLower, 3, Flatten(<<PB, PC, PH>>))>>}
NormalInputs ==
    {<<Input("VERTEX", 0), Input("NORMAL", 1)>>,
     <<Input("NORMAL", 0), Input("VERTEX", 1)>>,
     <<Input("VERTEX", 0), Input("TEXCOORD", 1)>>}
NormalDoc(sources, inputs, p) ==
    Document(Scene, sources, <<TrianglesPrimitive(inputs, p)>>)

\* inputs: every input list of up to MaxInputs inputs
InputLists ==
    SeqsUpTo({Input(sem, off) :
                 sem \in {"VERTEX", "POSITION", "NORMAL", "TEXCOORD"},
                 off \in 0..1},
             MaxInputs)
InputDoc(inputs) ==
    Document(Scene,
             <<Source(IdPositionLower, 3, Flatten(<<PB, PC, PH>>)),
               Source(IdNormalLower, 3, Flatten(<<NX, NZ>>))>>,
             <<TrianglesPrimitive(inputs, <<0, 1, 1, 0, 2, 1>>)>>)

\* structure: scenes, nodes, sources and primitives that are missing
StructScenes ==
    {<<>>, << <<>> >>, << << <<>> >> >>, << << <<GoneUrl>> >> >>,
     << << <<>>, <<MeshUrl>> >> >>, << << <<GoneUrl>>, <<MeshUrl>> >> >>}
StructSources ==
    {<<>>,
     <<Source(IdMap, 2, <<Fl(0), Fl(One)>>)>>,
     <<Source(IdPositionLower, 3, Flatten(<<PB, PC, PD>>))>>,
     <<Source(IdPositionCapital, 3, Flatten(<<PB, PC, PD>>))>>,
     <<Source(IdPositionUpper, 3, Flatten(<<PB, PC, PD>>))>>,
     <<Source(IdNormalUpper, 3, Flatten(<<NX, NZ, NX>>)),
       Source(IdMap, 2, <<Fl(0), Fl(One)>>),
       Source(IdPositionLower, 3, Flatten(<<PB, PC, PD>>))>>}
StructTriangles ==
    {<<>>,
     <<TrianglesPrimitive(<<>>, <<0, 1, 2>>)>>,
     <<TrianglesPrimitive(<<Input("NORMAL", 0)>>, <<0, 1, 2>>)>>,
     <<TrianglesPrimitive(<<Input("VERTEX", 0)>>, <<1, 0, 2>>),
       TrianglesPrimitive(<<Input("VERTEX", 0)>>, <<2, 1, 0>>)>>}

\* layout: position sources of every stride up to MaxStride whose float array
\* is cut after up to MaxFloats floats
LayoutTriangles ==
    {<<>>,
     <<TrianglesPrimitive(<<Input("POSITION", 0)>>, <<0, 1, 0>>)>>,
     <<TrianglesPrimitive(<<Input("POSITION", 0)>>, <<1, 0, 2>>)>>}
LayoutDoc(source_stride, n, triangles) ==
    Document(Scene,
             <<Source(IdPositionLower, source_stride,
                      SubSeq(Flatten(<<PB, PH, PD, PE>>), 1, n))>>,
             triangles)

\* the documents of the model
IsDoc(d) ==
    \/ \E c \in PointChoices : \E p \in SeqsUpTo(0..Len(c), MaxWin) :
          d = WeldDoc(c, p)
    \/ \E sources \in NormalSources, inputs \in NormalInputs,
          p \in SeqsUpTo(0..2, MaxNormalP) :
          d = NormalDoc(sources, inputs, p)
    \/ \E inputs \in InputLists : d = InputDoc(inputs)
    \/ \E scene \in StructScenes, sources \in StructSources,
          triangles \in StructTriangles :
          d = Document(scene, sources, triangles)
    \/ \E source_stride \in 0..MaxStride, n \in 0..MaxFloats,
          triangles \in LayoutTriangles :
          d = LayoutDoc(source_stride, n, triangles)

(***************************************************************************)
(* The state machine.                                                      *)
(***************************************************************************)
EmptyMap == [key \in {} |-> 0]

Init ==
    /\ IsDoc(doc)
    /\ call \in {"triangle", "wireframe"}
    /\ pc = "start"
    /\ i = 0
    /\ position_offset = <<>>
    /\ normal_offset = <<>>
    /\ stride = 0
    /\ positions = <<>>
    /\ normals = <<>>
    /\ indices = <<>>
    /\ vertex_map = EmptyMap
    /\ vertex_indices = EmptyMap
    /\ line_indices = <<>>
    /\ result = Pending

\* the call ends: return value, or panic
Return(value) ==
    /\ pc' = "done"
    /\ result' = value

\* collada_to_triangle_mesh, l.63-150: the look-up, the offsets and the stride
TrianglePrepare ==
    /\ call = "triangle"
    /\ pc = "start"
    /\ IF Len(TriangleError(doc)) > 0
       THEN /\ Return(GeometryError(TriangleError(doc)[1]))
            /\ UNCHANGED <<position_offset, normal_offset, stride>>
       ELSE /\ position_offset' = TrianglePositionOffset(TrianglesOf(doc).inputs)
            /\ normal_offset' = TriangleNormalOffset(TrianglesOf(doc).inputs)
            /\ stride' = IndexStride(TrianglesOf(doc).inputs)
            /\ pc' = "scan"
            /\ UNCHANGED result
    /\ UNCHANGED <<doc, call, i, positions, normals, indices, vertex_map,
                   vertex_indices, line_indices>>

\* collada_to_triangle_mesh, l.152-200: one iteration of the scan
TriangleScanStep ==
    /\ call = "triangle"
    /\ pc = "scan"
    /\ i < Len(TrianglesOf(doc).p)
    /\ LET p == TrianglesOf(doc).p
           position ==
               IF SliceInRange(p, i, stride)
               THEN WindowPosition(PositionSourceOf(doc), p, i, position_offset[1])
               ELSE <<>>
           normal ==
               IF Len(position) > 0
               THEN WindowNormal(NormalSourceOf(doc), p, i, normal_offset)
               ELSE <<>>
       IN  IF Len(normal) = 0
           THEN /\ Return(Panic(IF SliceInRange(p, i, stride)
                                THEN IndexOutOfBounds ELSE SliceOutOfRange))
                /\ UNCHANGED <<i, positions, normals, indices, vertex_map>>
           ELSE LET vertex_key == VertexKey(position[1])
                    index == IndexOfKey(vertex_map, vertex_key, Len(positions))
                IN  /\ positions' = Pushed(positions, vertex_map, vertex_key, position[1])
                    /\ normals' = Pushed(normals, vertex_map, vertex_key, normal[1])
                    /\ vertex_map' = Inserted(vertex_map, vertex_key, Len(positions))
                    /\ indices' = Append(indices, index)
                    /\ i' = i + stride
                    /\ UNCHANGED <<pc, result>>
    /\ UNCHANGED <<doc, call, position_offset, normal_offset, stride,
                   vertex_indices, line_indices>>

\* l.203: vec![[0.0, 0.0]; positions.len()]
Uvs(vec) == Repeat(DefaultUv, Len(vec))

\* collada_to_triangle_mesh, l.202-217: the mesh is assembled and returned
TriangleFinish ==
    /\ call = "triangle"
    /\ pc = "scan"
    /\ i >= Len(TrianglesOf(doc).p)
    /\ Return(OkMesh([topology |-> "TriangleList", positions |-> positions,
                      normals |-> normals, uv0 |-> Uvs(positions),
                      indices |-> indices]))
    /\ UNCHANGED <<doc, call, i, position_offset, normal_offset, stride, positions,
                   normals, indices, vertex_map, vertex_indices, line_indices>>

\* l.259: positions_raw.len() / position_stride (the stride is not 0)
PoolCount(source) == Len(source.float_array) \div source.stride

\* collada_to_wireframe_mesh, l.221-259: the look-up and the range of the pool scan
WireframePrepare ==
    /\ call = "wireframe"
    /\ pc = "start"
    /\ IF Len(WireframeError(doc)) > 0
       THEN Return(GeometryError(WireframeError(doc)[1]))
       ELSE IF PositionSourceOf(doc).stride = 0
            THEN Return(Panic(DivideByZero))
            ELSE pc' = "pool" /\ UNCHANGED result
    /\ UNCHANGED <<doc, call, i, position_offset, normal_offset, stride, positions,
                   normals, indices, vertex_map, vertex_indices, line_indices>>

\* collada_to_wireframe_mesh, l.259-277: one iteration of the pool scan
WireframePoolStep ==
    /\ call = "wireframe"
    /\ pc = "pool"
    /\ i < PoolCount(PositionSourceOf(doc))
    /\ LET source == PositionSourceOf(doc)
           pos_idx == i * source.stride
       IN  IF ~InRange3(source.float_array, pos_idx)
           THEN /\ Return(Panic(IndexOutOfBounds))
                /\ UNCHANGED <<i, positions, vertex_indices>>
           ELSE LET position == Read3(source.float_array, pos_idx)
                    vertex_key == VertexKey(position)
                IN  /\ vertex_indices' = Inserted(vertex_indices, vertex_key, Len(positions))
                    /\ positions' = Pushed(positions, vertex_indices, vertex_key, position)
                    /\ i' = i + 1
                    /\ UNCHANGED <<pc, result>>
    /\ UNCHANGED <<doc, call, position_offset, normal_offset, stride, normals,
                   indices, vertex_map, line_indices>>

\* collada_to_wireframe_mesh, l.279-297: the triangles, the offset and the stride
WireframeTriangles ==
    /\ call = "wireframe"
    /\ pc = "pool"
    /\ i >= PoolCount(PositionSourceOf(doc))
    /\ IF Len(WireframeTrianglesError(doc)) > 0
       THEN /\ Return(GeometryError(WireframeTrianglesError(doc)[1]))
            /\ UNCHANGED <<i, position_offset, stride>>
       ELSE /\ position_offset' = WireframePositionOffset(TrianglesOf(doc).inputs)
            /\ stride' = IndexStride(TrianglesOf(doc).inputs)
            /\ i' = 0
            /\ pc' = "faces"
            /\ UNCHANGED result
    /\ UNCHANGED <<doc, call, normal_offset, positions, normals, indices,
                   vertex_map, vertex_indices, line_indices>>

\* l.303-343: the keys of the 3 windows of the face at `face`, <<>> when a read
\* is out of range
FaceKeys(source, p, face, offset, index_stride) ==
    IF /\ SliceInRange(p, face, index_stride * 3)
       /\ \A k \in 0..2 :
            Len(WindowPosition(source, p, face + k * index_stride, offset)) > 0
    THEN <<[k \in 1..3 |->
              VertexKey(WindowPosition(source, p, face + (k - 1) * index_stride,
                                       offset)[1])]>>
    ELSE <<>>

\* the third edge closed on v1 instead of v0
FaceLinesOpen(map, keys) ==
    IF \A k \in 1..3 : keys[k] \in DOMAIN map
    THEN <<map[keys[1]], map[keys[2]], map[keys[2]], map[keys[3]],
           map[keys[3]], map[keys[2]]>>
    ELSE <<>>

\* l.346-361: the line indices of a face with the keys v0_key, v1_key, v2_key
FaceLines(map, keys) ==
    IF \A k \in 1..3 : keys[k] \in DOMAIN map
    THEN <<map[keys[1]], map[keys[2]], map[keys[2]], map[keys[3]],
           map[keys[3]], map[keys[1]]>>
    ELSE <<>>

\* collada_to_wireframe_mesh, l.299-362: one iteration of the face loop
WireframeFaceStep ==
    /\ call = "wireframe"
    /\ pc = "faces"
    /\ i < Len(TrianglesOf(doc).p)
    /\ LET keys == FaceKeys(PositionSourceOf(doc), TrianglesOf(doc).p, i,
                            position_offset[1], stride)
       IN  IF Len(keys) = 0
           THEN /\ Return(Panic(IF SliceInRange(TrianglesOf(doc).p, i, stride * 3)
                                THEN IndexOutOfBounds ELSE SliceOutOfRange))
                /\ UNCHANGED <<i, line_indices>>
           ELSE /\ line_indices' = line_indices \o FaceLines(vertex_indices, keys[1])
                /\ i' = i + stride * 3
                /\ UNCHANGED <<pc, result>>
    /\ UNCHANGED <<doc, call, position_offset, normal_offset, stride, positions,
                   normals, indices, vertex_map, vertex_indices>>

\* collada_to_wireframe_mesh, l.364-380: the mesh is assembled and returned
WireframeFinish ==
    /\ call = "wireframe"
    /\ pc = "faces"
    /\ i >= Len(TrianglesOf(doc).p)
    /\ Return(OkMesh([topology |-> "LineList", positions |-> positions,
                      normals |-> Repeat(WireframeNormal, Len(positions)),
                      uv0 |-> Uvs(positions), indices |-> line_indices]))
    /\ UNCHANGED <<doc, call, i, position_offset, normal_offset, stride, positions,
                   normals, indices, vertex_map, vertex_indices, line_indices>>

Next ==
    \/ TrianglePrepare
    \/ TriangleScanStep
    \/ TriangleFinish
    \/ WireframePrepare
    \/ WireframePoolStep
    \/ WireframeTriangles
    \/ WireframeFaceStep
    \/ WireframeFinish

Spec == Init /\ [][Next]_vars

(***************************************************************************)
(* The triangle path, seen from the index block: what the scan must have   *)
(* produced after its first windows, stated without the map.               *)
(***************************************************************************)
\* the scan has started: the look-up succeeded and stride >= 1
Scanning == call = "triangle" /\ pc \in {"scan", "done"} /\ stride > 0

\* the windows scanned so far, and the windows of the whole index block
Scanned == i \div stride
WindowCount == Len(TrianglesOf(doc).p) \div stride

\* the raw position, the key and the normal of window w (1, 2, ...)
WinPos(w) ==
    WindowPosition(PositionSourceOf(doc), TrianglesOf(doc).p, (w - 1) * stride,
                   position_offset[1])[1]
WinKey(w) == VertexKey(WinPos(w))
WinNormal(w) ==
    WindowNormal(NormalSourceOf(doc), TrianglesOf(doc).p, (w - 1) * stride,
                 normal_offset)[1]

\* the first window in scan order with the key of window w
FirstOcc(w) ==
    CHOOSE u \in 1..w :
        /\ WinKey(u) = WinKey(w)
        /\ \A v \in 1..(u - 1) : WinKey(v) # WinKey(w)

\* the canonical index of window w: the number of first occurrences before
\* the first occurrence of its key
Canonical(w) == Cardinality({u \in 1..(FirstOcc(w) - 1) : FirstOcc(u) = u})

TriangleReturned == call = "triangle" /\ pc = "done" /\ result.kind = "Ok"

\* C1: after every window of the scan the index sequence has one entry per
\* window scanned, the entry of window w is the canonical index of the first
\* window with the same VertexKey, canonical indices count first occurrences
\* from 0, and positions[k], normals[k] are the raw position and the resolved
\* normal of that first occurrence; with pairwise distinct keys V = N and the
\* indices are 0..N-1; the mesh returned holds these vectors for all N windows.
C1_FirstOccurrenceIndex ==
    /\ Scanning =>
         /\ Len(indices) = Scanned
         /\ \A w \in 1..Scanned :
              /\ indices[w] = Canonical(w)
              /\ Canonical(w) < Len(positions)
              /\ positions[Canonical(w) + 1] = WinPos(FirstOcc(w))
              /\ normals[Canonical(w) + 1] = WinNormal(FirstOcc(w))
         /\ (\A u, w \in 1..Scanned : u # w => WinKey(u) # WinKey(w)) =>
              /\ Len(positions) = Scanned
              /\ indices = [w \in 1..Scanned |-> w - 1]
    /\ TriangleReturned =>
         /\ Scanned = WindowCount
         /\ Len(result.mesh.indices) = WindowCount
         /\ result.mesh.indices = indices
         /\ result.mesh.positions = positions
         /\ result.mesh.normals = normals

\* a mesh returned for 3 windows of which a later one has the key, but not
\* the raw position and not the normal, of an earlier one
C1_Witness ==
    /\ TriangleReturned
    /\ WindowCount = 3
    /\ Len(result.mesh.positions) = 2
    /\ \E w \in 1..3 :
         /\ FirstOcc(w) # w
         /\ WinPos(w) # WinPos(FirstOcc(w))
    /\ \E w \in 1..3 :
         /\ FirstOcc(w) # w
         /\ WinNormal(w) # WinNormal(FirstOcc(w))

\* C2: during the scan positions, normals and the key map have the same size;
\* a mesh returned by either path has positions, normals and uv0 of one
\* length V, and on the triangle path V is at most the number N of windows.
C2_EqualLengths ==
    /\ Scanning =>
         /\ Len(positions) = Len(normals)
         /\ Len(positions) = Cardinality(DOMAIN vertex_map)
    /\ (pc = "done" /\ result.kind = "Ok") =>
         /\ Len(result.mesh.positions) = Len(result.mesh.normals)
         /\ Len(result.mesh.positions) = Len(result.mesh.uv0)
    /\ TriangleReturned => Len(result.mesh.positions) <= WindowCount

\* a triangle mesh with fewer vertices than windows
C2_Witness ==
    /\ TriangleReturned
    /\ WindowCount = 3
    /\ Len(result.mesh.positions) = 2
    /\ Len(result.mesh.uv0) = 2

\* C3: at every step of the scan no two distinct keys of the map have the same
\* index and every index emitted so far is less than the number of vertices
\* stored; every index of the mesh returned is less than V.
C3_InjectiveAndInRange ==
    /\ Scanning =>
         /\ \A k1, k2 \in DOMAIN vertex_map :
              vertex_map[k1] = vertex_map[k2] => k1 = k2
         /\ \A w \in 1..Len(indices) : indices[w] < Len(positions)
    /\ TriangleReturned =>
         \A w \in 1..Len(result.mesh.indices) :
            /\ result.mesh.indices[w] >= 0
            /\ result.mesh.indices[w] < Len(result.mesh.positions)

\* a triangle mesh whose map holds 3 keys
C3_Witness ==
    /\ TriangleReturned
    /\ Cardinality(DOMAIN vertex_map) = 3
    /\ result.mesh.indices = <<0, 1, 2>>

(***************************************************************************)
(* Welding tolerance.                                                      *)
(***************************************************************************)
\* the float64 position window w references, before any cast
WinRaw(w) ==
    LET source == PositionSourceOf(doc)
        pos_idx == RawIndex(TrianglesOf(doc).p, (w - 1) * stride,
                            position_offset[1], source.stride)
    IN  <<source.float_array[pos_idx + 1], source.float_array[pos_idx + 2],
          source.float_array[pos_idx + 3]>>

\* |x - y| < 0.0005, and |x - y| >= 0.001
CloserThanHalf(x, y) == x[1] = y[1] /\ 2 * Abs(x[2] - y[2]) < Ticks
ApartByOne(x, y) == x[1] # y[1] \/ Abs(x[2] - y[2]) >= Ticks

\* |x| <= 1 and x is within 0.0004 of m * 0.001
NearMultiple(x, m) ==
    /\ x[1] = 0
    /\ Abs(x[2]) <= One
    /\ 5 * Abs(x[2] - m * Ticks) <= 2 * Ticks

\* x and y are within 0.0004 of the same multiple of 0.001
SameCell(x, y) ==
    \E m \in {x[2] \div Ticks, (x[2] \div Ticks) + 1} :
        NearMultiple(x, m) /\ NearMultiple(y, m)

\* C4 as stated: two positions of the index block that differ by less than
\* 0.0005 on every axis have the same canonical index.
C4_CloseAlwaysMerge ==
    TriangleReturned =>
        \A u, w \in 1..WindowCount :
            (\A a \in 1..3 : CloserThanHalf(WinRaw(u)[a], WinRaw(w)[a]))
                => result.mesh.indices[u] = result.mesh.indices[w]

\* C4, amended: two positions of the index block whose coordinates (of
\* magnitude at most 1) lie on every axis within 0.0004 of the same multiple
\* of 0.001 have the same canonical index.
C4_SameCellMerge ==
    Scanning =>
        \A u, w \in 1..Scanned :
            (\A a \in 1..3 : SameCell(WinRaw(u)[a], WinRaw(w)[a]))
                => indices[u] = indices[w]

\* two windows with different positions in one cell, welded in the mesh
C4_Witness ==
    /\ TriangleReturned
    /\ \E u, w \in 1..Scanned :
         /\ WinRaw(u) # WinRaw(w)
         /\ \A a \in 1..3 : SameCell(WinRaw(u)[a], WinRaw(w)[a])
         /\ result.mesh.indices[u] = result.mesh.indices[w]

\* C5: two positions of the index block that differ by 0.001 or more on some
\* axis, whatever their magnitude, have distinct canonical indices, so that
\* each has its own entry in the output positions.
C5_FarNeverMerge ==
    TriangleReturned =>
        \A u, w \in 1..WindowCount :
            (\E a \in 1..3 : ApartByOne(WinRaw(u)[a], WinRaw(w)[a]))
                => /\ result.mesh.indices[u] # result.mesh.indices[w]
                   /\ result.mesh.indices[u] < Len(result.mesh.positions)
                   /\ result.mesh.indices[w] < Len(result.mesh.positions)

(***************************************************************************)
(* Malformed input.                                                        *)
(***************************************************************************)
\* the look-up of the call finds everything up to the position offset
LookupSucceeds ==
    /\ Len(TriangleError(doc)) = 0
    /\ Len(WireframePositionOffset(TrianglesOf(doc).inputs)) > 0

\* the index block is not a whole number of windows, or an entry at the
\* position offset of the call points past the end of the float array
MalformedBlock ==
    LET p == TrianglesOf(doc).p
        inputs == TrianglesOf(doc).inputs
        offset == IF call = "triangle" THEN TrianglePositionOffset(inputs)[1]
                  ELSE WireframePositionOffset(inputs)[1]
        source == PositionSourceOf(doc)
    IN  \/ Len(p) % IndexStride(inputs) # 0
        \/ \E w \in 0..((Len(p) \div IndexStride(inputs)) - 1) :
             ~InRange3(source.float_array,
                       RawIndex(p, w * IndexStride(inputs), offset, source.stride))

\* C6: neither function makes an out-of-range access (a panic of an index or
\* of a slice), and on a malformed index block or float array both return
\* GeometryError("malformed data").
C6_MalformedIsTypedError ==
    /\ ~(result.kind = "Panic" /\ result.msg \in {IndexOutOfBounds, SliceOutOfRange})
    /\ (pc = "done" /\ LookupSucceeds /\ MalformedBlock)
          => result = GeometryError("malformed data")

(***************************************************************************)
(* Wireframe of a single triangle.                                         *)
(***************************************************************************)
WireframeReturned == call = "wireframe" /\ pc = "done" /\ result.kind = "Ok"

\* the undirected edges a line index sequence encodes
Edges(lines) == {{lines[2 * k - 1], lines[2 * k]} : k \in 1..(Len(lines) \div 2)}

Permutations3 == {f \in [1..3 -> 1..3] : \A a, b \in 1..3 : f[a] = f[b] => a = b}

\* the index block of one triangle with its three windows reordered by f
Rewound(p, index_stride, f) ==
    [k \in 1..Len(p) |->
        p[(f[((k - 1) \div index_stride) + 1] - 1) * index_stride
            + ((k - 1) % index_stride) + 1]]

\* the line indices the face loop gives for a one-triangle index block p
LinesOfTriangle(p) ==
    FaceLines(vertex_indices,
              FaceKeys(PositionSourceOf(doc), p, 0, position_offset[1], stride)[1])

SingleTriangle == Len(TrianglesOf(doc).p) = 3 * stride

\* the keys of the positions of the position source, as the pool scan reads them
SourceKeys ==
    LET source == PositionSourceOf(doc)
    IN  {VertexKey(Read3(source.float_array, n * source.stride)) :
            n \in 0..(PoolCount(source) - 1)}

\* the keys of the three windows of the triangle
TriangleKeys ==
    LET keys == FaceKeys(PositionSourceOf(doc), TrianglesOf(doc).p, 0,
                         position_offset[1], stride)[1]
    IN  {keys[k] : k \in 1..3}

SingleTriangleShape ==
    /\ Len(result.mesh.positions) = 3
    /\ Len(result.mesh.indices) = 6
    /\ Cardinality(Edges(result.mesh.indices)) = 3
    /\ \A e \in Edges(result.mesh.indices) : Cardinality(e) = 2
    /\ \A f \in Permutations3 :
         Edges(LinesOfTriangle(Rewound(TrianglesOf(doc).p, stride, f)))
            = Edges(result.mesh.indices)

\* C7 as stated: a wireframe mesh of an index block of exactly one triangle
\* has 3 pooled vertices and 6 line indices that encode 3 distinct undirected
\* edges, the same for every order of the three windows.
C7_SingleTriangle ==
    (WireframeReturned /\ SingleTriangle) => SingleTriangleShape

\* C7, amended: the same, for a triangle whose three windows reference
\* positions with pairwise distinct keys and a position source that holds
\* positions of these three keys only.
C7_SingleTriangleOfWholePool ==
    (/\ WireframeReturned
     /\ SingleTriangle
     /\ Cardinality(TriangleKeys) = 3
     /\ SourceKeys = TriangleKeys) => SingleTriangleShape

\* a wireframe mesh of one triangle over a source of exactly its three keys
C7_Witness ==
    /\ WireframeReturned
    /\ SingleTriangle
    /\ Cardinality(TriangleKeys) = 3
    /\ SourceKeys = TriangleKeys
    /\ result.mesh.indices = <<1, 0, 0, 2, 2, 1>>

(***************************************************************************)
(* Missing parts.                                                          *)
(***************************************************************************)
HasScene == Len(GetVisualScene(doc)) > 0
HasGeometry == HasScene /\ Len(FindGeometry(doc, GetVisualScene(doc)[1])) > 0
HasPositionSource == HasGeometry /\ Len(FindPositionSource(MeshOf(doc))) > 0
HasTriangles == HasGeometry /\ Len(FirstTriangles(MeshOf(doc))) > 0
HasPositionInput ==
    /\ HasTriangles
    /\ WithSemantic(TrianglesOf(doc).inputs, {"VERTEX", "POSITION"}) # {}

\* C8: when the visual scene, a resolvable geometry, the position source, the
\* first triangles primitive or the position input is missing, the call
\* returns a Geometry error and no mesh; with a position source and no
\* triangles primitive it returns GeometryError("No triangles found").
C8_MissingPartIsGeometryError ==
    pc = "done" =>
        /\ ~(HasPositionSource /\ HasTriangles /\ HasPositionInput) =>
              /\ result.kind = "Err"
              /\ result.mesh = NoMesh
        /\ (HasPositionSource /\ ~HasTriangles) =>
              result = GeometryError("No triangles found")

(***************************************************************************)
(* Default normals.                                                        *)
(***************************************************************************)
\* C9: on the triangle path, without a normal source or without a NORMAL
\* input every normal stored, and every normal of the mesh returned, is
\* (0, 1, 0).
C9_DefaultNormalIsUp ==
    (/\ call = "triangle"
     /\ pc \in {"scan", "done"}
     /\ Len(TriangleError(doc)) = 0
     /\ \/ Len(FindNormalSource(MeshOf(doc))) = 0
        \/ WithSemantic(TrianglesOf(doc).inputs, {"NORMAL"}) = {}) =>
        /\ \A k \in 1..Len(normals) : normals[k] = <<<<0, 0>>, <<0, One>>, <<0, 0>>>>
        /\ \A k \in 1..Len(result.mesh.normals) :
              result.mesh.normals[k] = <<<<0, 0>>, <<0, One>>, <<0, 0>>>>

\* a mesh of two vertices for a NORMAL input without a normal source
C9_Witness ==
    /\ TriangleReturned
    /\ Len(FindNormalSource(MeshOf(doc))) = 0
    /\ WithSemantic(TrianglesOf(doc).inputs, {"NORMAL"}) # {}
    /\ Len(result.mesh.normals) = 2

(***************************************************************************)
(* The position offset.                                                    *)
(***************************************************************************)
OffsetsWithSemantic(inputs, semantic) ==
    {inputs[n].offset : n \in WithSemantic(inputs, {semantic})}

\* C10: the position offset a call reads the index block with is the offset of
\* a VERTEX input whenever one is declared and of a POSITION input otherwise,
\* and the offset collada_to_wireframe_mesh uses is the one
\* collada_to_triangle_mesh selects for the same input list.
C10_VertexPreferred ==
    (pc \in {"scan", "faces"} \/ (pc = "done" /\ stride > 0)) =>
        LET inputs == TrianglesOf(doc).inputs
        IN  /\ Len(position_offset) = 1
            /\ IF OffsetsWithSemantic(inputs, "VERTEX") # {}
               THEN position_offset[1] \in OffsetsWithSemantic(inputs, "VERTEX")
               ELSE position_offset[1] \in OffsetsWithSemantic(inputs, "POSITION")
            /\ (/\ call = "wireframe"
                /\ Cardinality(WithSemantic(inputs, {"VERTEX"})) <= 1
                /\ Cardinality(WithSemantic(inputs, {"POSITION"})) <= 1)
                  => position_offset = TrianglePositionOffset(inputs)

(***************************************************************************)
(* The source identifiers.                                                 *)
(***************************************************************************)
\* the lower-case letter of a character, over the letters the ids are made of
ToLowerCase(ch) ==
    CASE ch = "P" -> "p" [] ch = "O" -> "o" [] ch = "S" -> "s"
      [] ch = "I" -> "i" [] ch = "T" -> "t" [] ch = "N" -> "n"
      [] ch = "R" -> "r" [] ch = "M" -> "m" [] ch = "A" -> "a"
      [] ch = "L" -> "l" [] OTHER -> ch

\* needle, in lower case, occurs in hay when letter case is ignored
ContainsIgnoringCase(hay, needle) ==
    Contains([k \in 1..Len(hay) |-> ToLowerCase(hay[k])], needle)

\* the sources of the mesh whose id holds the word in any mix of letter cases
SourcesNamed(word) ==
    {n \in 1..Len(MeshOf(doc).sources) :
        ContainsIgnoringCase(MeshOf(doc).sources[n].id, word)}

\* C11: once a call on a document with a geometry has returned, the position
\* source it looked up is the first source of the mesh whose id contains
\* "position" in any mix of upper and lower case, the normal source is the
\* first source whose id contains "normal" in any mix of case, and with such
\* a position source the result is not
\* GeometryError("No position source found").
C11_CaseInsensitiveSourceMatch ==
    (pc = "done" /\ HasGeometry) =>
        /\ FindPositionSource(MeshOf(doc)) =
              First(MeshOf(doc).sources, SourcesNamed(LowerPosition))
        /\ FindNormalSource(MeshOf(doc)) =
              First(MeshOf(doc).sources, SourcesNamed(LowerNormal))
        /\ SourcesNamed(LowerPosition) # {} =>
              result # GeometryError("No position source found")

=============================================================================
